---- MODULE Spec2Model ----
(***************************************************************************)
(* A model of the ZActor runtime of src/zactor.py: the receive loop, the   *)
(* tell / ask protocol with its correlation table (ask_pool), the          *)
(* check_reply auto-reply wrapper, the built-in control handlers and the   *)
(* ping / pong heartbeat.                                                  *)
(*                                                                         *)
(* The runtime is a set of gevent greenlets, scheduled cooperatively: a    *)
(* greenlet runs until it blocks (a socket read, Event.wait, gevent.sleep).*)
(* Every action below is one such run between two blocking points.         *)
(*                                                                         *)
(* Which ready greenlet runs next, and when a frame, a timeout or the end   *)
(* of a sleep arrives, is left open: every order gevent can produce is a   *)
(* behaviour of the model.                                                 *)
(*                                                                         *)
(* An envelope is a Python dict; it is modelled as a function from the     *)
(* keys it holds to their values.  uuid4().hex is modelled by a counter    *)
(* that never repeats; time.time() by the token Now.  Envelopes of peers   *)
(* carry Ids from 100 on; 999 is an Id nobody has sent.                    *)
(*                                                                         *)
(* Spec is the whole actor.  SpecAsk, SpecSend, SpecCtl, SpecHb, SpecRc,    *)
(* SpecIdle, SpecRx, SpecDisp, SpecTwo, SpecStop and SpecAskStop run the   *)
(* same actions against one kind of traffic each.                          *)
(***************************************************************************)
EXTENDS Integers, Sequences, FiniteSets, TLC

VARIABLES
    settings,               \* self.settings
    sent_message_count,     \* self.sent_message_count
    receive_message_count,  \* self.receive_message_count
    ask_pool,               \* self.ask_pool: Id -> [event, result]
    pong_event,             \* self.pong_event (is the Event set)
    last_ping_id,           \* self.last_ping_id (0: attribute not yet set)
    inbox,                  \* frames queued on the SUB socket
    wire,                   \* own envelopes on the bus, addressed to this actor
    outbox,                 \* every envelope handed to pub_socket.send_json, in order
    handlers,               \* greenlets spawned by receive() that have not run yet
    rxpc,                   \* the receive greenlet: "recv" or "dead"
    rxlog,                  \* history: the envelopes receive() has decoded, in order
    log,                    \* the logger's warnings and errors, in order
    asks,                   \* the application greenlets that call ask()
    tells,                  \* number of tell() calls made by the application
    hb,                     \* the ping() greenlet
    sockets,                \* self.pub_socket / self.sub_socket: which socket object, open or closed
    nextId,                 \* source of fresh uuid4 values
    delivered,              \* number of frames the bus has delivered from peers
    pong_src,               \* history: the PingId of the on_Pong that set pong_event
    clock,                  \* time.time(), in seconds since the process started
    last_msg_time,          \* self.last_msg_time
    last_msg_time_sum,      \* self.last_msg_time_sum
    last_pub_sub_reconnect, \* self.last_pub_sub_reconnect
    idle,                   \* the check_idle() greenlet
    rxsock,                 \* the socket object receive() is reading on
    stopped,                \* history: stop() has run
    inst2                   \* the attributes bound on a second ZActor of the process

vars == <<settings, sent_message_count, receive_message_count, ask_pool,
          pong_event, last_ping_id, inbox, wire, outbox, handlers, rxpc, rxlog,
          log, asks, tells, hb, sockets, nextId, delivered, pong_src, clock,
          last_msg_time, last_msg_time_sum, last_pub_sub_reconnect, idle,
          rxsock, stopped, inst2>>

----------------------------------------------------------------------------
(* Bounds of the model *)

MaxAsk == 2
MaxTell == 2
MaxDeliver == 2
MaxRounds == 2
MaxClock == 5

----------------------------------------------------------------------------
(* Envelopes *)

uid == "me"
Now == "now"
EmptyEnv == [k \in {} |-> 0]

Has(m, k) == k \in DOMAIN m

\* dict.update
Update(m, u) ==
    [k \in DOMAIN m \cup DOMAIN u |-> IF k \in DOMAIN u THEN u[k] ELSE m[k]]

\* msg.get('ReplyTo') is truthy: the key is there and the list is not empty
HasReplyTo(m) == Has(m, "ReplyTo") /\ m["ReplyTo"] # <<>>

\* the keys the specification calls envelope headers
HeaderKeys ==
    {"Id", "Message", "From", "SendTime", "Sequence", "To", "ReplyTo",
     "ReplyToId", "Received"}

\* the keys _remove_msg_headers pops
PoppedKeys ==
    {"Id", "ReplyToId", "To", "Received", "From", "Message", "SendTime",
     "Sequence"}

remove_msg_headers(msg) == [k \in DOMAIN msg \ PoppedKeys |-> msg[k]]

\* '{}Reply'.format(msg.get('Message'))
ReplyName(name) == name \o "Reply"

\* the on_<Message> methods of ZActor
HandlerNames == {"Ping", "Pong", "UpdateSettings", "KeepAlive", "Subscribe", "Start"}

----------------------------------------------------------------------------
(* The sending side.  P is the part of the state a send changes:           *)
(* cnt = sent_message_count, nid = the uuid source, out = outbox,          *)
(* net = wire; up tells whether the PUB socket is open, err whether a send *)
(* has raised (the caller's code after the send is then not run).  An      *)
(* outbox entry records who published (tell or ask), the envelope, and the *)
(* value of sent_message_count at that moment.                             *)

\* pub_socket.send_json: on a closed socket it raises zmq.ZMQError
Pub(P, via, m) ==
    IF ~P.up
    THEN [P EXCEPT !.err = TRUE]
    ELSE [P EXCEPT !.out = Append(@, [via |-> via, env |-> m, cnt |-> P.cnt]),
                   !.net = IF Has(m, "To") /\ m["To"] = uid THEN Append(@, m) ELSE @]

\* faulty variant of tell: the counter is stamped but not incremented
tell_no_increment(P, msg) ==
    LET m == Update(msg, [Id |-> P.nid, SendTime |-> Now, From |-> uid,
                          Sequence |-> P.cnt])
    IN  Pub([P EXCEPT !.nid = @ + 1], "tell", m)

\* tell(): increment the counter, stamp the four headers, publish
tell(P, msg) ==
    LET c == P.cnt + 1
        m == Update(msg, [Id |-> P.nid, SendTime |-> Now, From |-> uid,
                          Sequence |-> c])
    IN  IF P.err THEN P ELSE Pub([P EXCEPT !.cnt = c, !.nid = @ + 1], "tell", m)

\* the envelope the last send of P published (tell returns it)
Sent(P) == P.out[Len(P.out)].env

\* ask(), up to and including pub_socket.send_json
ask_send(P, msg) ==
    LET m == Update(msg, [Id |-> P.nid, SendTime |-> Now, From |-> uid,
                          ReplyTo |-> <<uid>>])
    IN  Pub([P EXCEPT !.cnt = @ + 1, !.nid = @ + 1], "ask", m)

P0 ==
    [cnt |-> sent_message_count, nid |-> nextId, out |-> outbox, net |-> wire,
     up |-> sockets.pub.open, err |-> FALSE]

Commit(P) ==
    /\ sent_message_count' = P.cnt
    /\ nextId' = P.nid
    /\ outbox' = P.out
    /\ wire' = P.net

----------------------------------------------------------------------------
(* The transport session *)

disconnect_pub_socket(s) == [s EXCEPT !.pub.open = FALSE]
disconnect_sub_socket(s) == [s EXCEPT !.sub.open = FALSE]
connect_sub_socket(s) == [s EXCEPT !.sub = [gen |-> @.gen + 1, open |-> TRUE]]
connect_pub_socket(s) == [s EXCEPT !.pub = [gen |-> @.gen + 1, open |-> TRUE]]

\* faulty variant of disconnect_raises: closing a closed socket is accepted
disconnect_never_raises(s) == FALSE

\* _disconnect_pub_socket on a socket that is already closed: setsockopt
\* raises zmq.ZMQError
disconnect_raises(s) == ~s.pub.open

\* stop(): both sockets are closed, nothing else
stop(s) == disconnect_pub_socket(disconnect_sub_socket(s))

reconnect_pub_sub(s) ==
    connect_pub_socket(connect_sub_socket(
        disconnect_sub_socket(disconnect_pub_socket(s))))

----------------------------------------------------------------------------
(* The receive loop *)

Frame(m) == [parts |-> 2, json |-> TRUE, msg |-> m]

LogLine(level, what, m) ==
    [level |-> level, what |-> what, id |-> IF Has(m, "Id") THEN m["Id"] ELSE 0]

\* faulty variant of receive_step: an unknown message or an unmatched reply
\* raises out of the loop instead of being logged
receive_unknown_raises(pool, msg) ==
    IF Has(msg, "ReplyToId")
    THEN IF msg["ReplyToId"] \in DOMAIN pool
         THEN [pool |-> [pool EXCEPT ![msg["ReplyToId"]] =
                            [event |-> TRUE, result |-> msg]],
               spawn |-> <<>>, logs |-> <<>>, pc |-> "recv"]
         ELSE [pool |-> pool, spawn |-> <<>>, logs |-> <<>>, pc |-> "dead"]
    ELSE IF Has(msg, "Message") /\ msg["Message"] \in HandlerNames
         THEN [pool |-> pool, spawn |-> <<msg>>, logs |-> <<>>, pc |-> "recv"]
         ELSE [pool |-> pool, spawn |-> <<>>, logs |-> <<>>, pc |-> "dead"]

\* faulty variant of receive_step: a reply is given to the oldest entry of
\* ask_pool, whatever its ReplyToId
receive_first_entry(pool, msg) ==
    IF Has(msg, "ReplyToId")
    THEN IF pool # EmptyEnv
         THEN LET i == CHOOSE j \in DOMAIN pool : \A k \in DOMAIN pool : j <= k
              IN  [pool |-> [pool EXCEPT ![i] = [event |-> TRUE, result |-> msg]],
                   spawn |-> <<>>, logs |-> <<>>, pc |-> "recv"]
         ELSE [pool |-> pool, spawn |-> <<>>,
               logs |-> <<LogLine("error", "unexpected reply", msg)>>,
               pc |-> "recv"]
    ELSE IF Has(msg, "Message") /\ msg["Message"] \in HandlerNames
         THEN [pool |-> pool, spawn |-> <<msg>>, logs |-> <<>>, pc |-> "recv"]
         ELSE [pool |-> pool, spawn |-> <<>>,
               logs |-> <<LogLine("error", "unknown message", msg)>>,
               pc |-> "recv"]

\* One iteration of receive() on a decoded envelope: the new ask_pool, the
\* handler greenlets spawned, the lines logged and whether the loop goes on.
receive_step(pool, msg) ==
    IF Has(msg, "ReplyToId")
    THEN IF msg["ReplyToId"] \in DOMAIN pool
         THEN [pool |-> [pool EXCEPT ![msg["ReplyToId"]] =
                            [event |-> TRUE, result |-> msg]],
               spawn |-> <<>>, logs |-> <<>>, pc |-> "recv"]
         ELSE [pool |-> pool, spawn |-> <<>>,
               logs |-> <<LogLine("error", "unexpected reply", msg)>>,
               pc |-> "recv"]
    ELSE IF Has(msg, "Message") /\ msg["Message"] \in HandlerNames
         THEN [pool |-> pool, spawn |-> <<msg>>, logs |-> <<>>, pc |-> "recv"]
         ELSE [pool |-> pool, spawn |-> <<>>,
               logs |-> <<LogLine("error", "unknown message", msg)>>,
               pc |-> "recv"]

\* faulty variant of spawn_returns: the handler is called in the loop, which
\* reads again only when no handler is unfinished
spawn_joins(hs) == hs = <<>>

\* gevent.spawn(handler, msg) returns at once, whatever the greenlets spawned
\* before (hs) are doing: the loop is back at its read
spawn_returns(hs) == TRUE

\* recv_multipart() returned a frame: unpack, reset the idle bookkeeping,
\* json.loads, stamp, then branch.  The read is on the socket object the loop
\* took from self.sub_socket (rxsock).  A frame that is not two parts raises
\* at the unpacking, one whose body is not a JSON object at json.loads (after
\* the idle bookkeeping): only zmq.ZMQError is caught, so either ends the
\* greenlet.  Line 226 computes receive_message_count + 1 and drops it.
Receive ==
    /\ rxpc = "recv"
    /\ spawn_returns(handlers)
    /\ rxsock = sockets.sub.gen
    /\ sockets.sub.open
    /\ inbox # <<>>
    /\ LET f == Head(inbox) IN
         /\ inbox' = Tail(inbox)
         /\ receive_message_count' = receive_message_count
         /\ IF f.parts = 2
            THEN /\ last_msg_time' = clock
                 /\ last_msg_time_sum' = 0
            ELSE UNCHANGED <<last_msg_time, last_msg_time_sum>>
         /\ IF f.parts # 2 \/ ~f.json
            THEN /\ rxpc' = "dead"
                 /\ UNCHANGED <<ask_pool, handlers, log, rxlog>>
            ELSE LET msg == Update(f.msg, [Received |-> Now])
                     r == receive_step(ask_pool, msg)
                 IN  /\ rxlog' = Append(rxlog, msg)
                     /\ ask_pool' = r.pool
                     /\ handlers' = handlers \o r.spawn
                     /\ log' = log \o r.logs
                     /\ rxpc' = r.pc
    /\ UNCHANGED <<settings, sent_message_count, pong_event, last_ping_id, wire,
                   outbox, asks, tells, hb, sockets, nextId, delivered, pong_src,
                   clock, last_pub_sub_reconnect, idle, rxsock, stopped, inst2>>

\* The condition of the except branch, as written on line 219: the time of
\* the last reconnect minus the current time
read_error_is_logged(last, now) == last - now > 1

\* faulty variant of next_read_socket: the loop keeps the socket object it had
next_read_socket_held(s, held) == held

\* the loop evaluates self.sub_socket anew for every read
next_read_socket(s, held) == s.sub.gen

\* recv_multipart() raised zmq.ZMQError.  That happens when the socket the
\* loop is blocked on has been closed (cause "closed": by ping()'s reconnect
\* or by stop(); close() wakes the reader), or on a transport error while the
\* loop waits for a frame (cause "fault").  The loop continues
\* with a read on whatever self.sub_socket is now.  If that socket is closed
\* too the read raises again at once, without a switch to the hub: the loop
\* spins and no other greenlet runs again (rxpc = "spin").
ReadError(cause) ==
    /\ rxpc = "recv"
    /\ IF cause = "closed"
       THEN /\ rxsock # sockets.sub.gen \/ ~sockets.sub.open
            /\ delivered' = delivered
       ELSE /\ rxsock = sockets.sub.gen /\ sockets.sub.open
            /\ inbox = <<>>
            /\ delivered < MaxDeliver
            /\ delivered' = delivered + 1
    /\ LET logged == read_error_is_logged(last_pub_sub_reconnect, clock)
           s == IF logged
                THEN connect_sub_socket(disconnect_sub_socket(sockets))
                ELSE sockets
       IN  /\ sockets' = s
           /\ inbox' = IF logged THEN <<>> ELSE inbox
           /\ log' = IF logged
                     THEN Append(log, [level |-> "warning",
                                       what |-> "sub socket error", id |-> 0])
                     ELSE log
           /\ rxsock' = next_read_socket(s, rxsock)
           /\ rxpc' = IF s.sub.open THEN "recv" ELSE "spin"
    /\ UNCHANGED <<settings, sent_message_count, receive_message_count, ask_pool,
                   pong_event, last_ping_id, wire, outbox, handlers, rxlog, asks,
                   tells, hb, nextId, pong_src, clock, last_msg_time,
                   last_msg_time_sum, last_pub_sub_reconnect, idle, stopped, inst2>>

----------------------------------------------------------------------------
(* The auto-reply wrapper and the control handlers *)

\* faulty variant of on_Ping: the Pong is sent to askers too
on_Ping_always_pong(P, msg) ==
    tell(P, [Message |-> "Pong", To |-> msg["From"], PingId |-> msg["Id"]])

\* on_Ping without its wrapper
on_Ping(P, msg) ==
    IF ~HasReplyTo(msg)
    THEN tell(P, [Message |-> "Pong", To |-> msg["From"], PingId |-> msg["Id"]])
    ELSE P

RECURSIVE reply_each(_, _, _, _)
\* the for loop of check_reply: res is updated in place and told once per target
reply_each(P, msg, res, targets) ==
    IF targets = <<>> \/ P.err
    THEN P
    ELSE LET r == Update(res, [To |-> Head(targets),
                               Message |-> ReplyName(msg["Message"]),
                               ReplyToId |-> msg["Id"]])
             P1 == tell(P, r)
         IN  reply_each(P1, msg, Sent(P1), Tail(targets))

\* faulty variant of check_reply: only the first target is answered
check_reply_first_only(P, msg, res) ==
    IF HasReplyTo(msg) THEN reply_each(P, msg, res, <<Head(msg["ReplyTo"])>>) ELSE P

\* what the wrapper does after func returned res
check_reply(P, msg, res) ==
    IF HasReplyTo(msg) THEN reply_each(P, msg, res, msg["ReplyTo"]) ELSE P

on_UpdateSettings(sett, msg) == Update(sett, remove_msg_headers(msg))

RunPing ==
    /\ handlers # <<>>
    /\ Head(handlers)["Message"] = "Ping"
    /\ LET msg == Head(handlers) IN
         Commit(check_reply(on_Ping(P0, msg), msg, EmptyEnv))
    /\ handlers' = Tail(handlers)
    /\ UNCHANGED <<settings, receive_message_count, ask_pool, pong_event,
                   last_ping_id, inbox, rxpc, rxlog, log, asks, tells, hb,
                   sockets, delivered, pong_src,
                   clock, last_msg_time, last_msg_time_sum,
                   last_pub_sub_reconnect, idle, rxsock, stopped, inst2>>

RunUpdateSettings ==
    /\ handlers # <<>>
    /\ Head(handlers)["Message"] = "UpdateSettings"
    /\ LET msg == Head(handlers) IN
         /\ settings' = on_UpdateSettings(settings, msg)
         /\ Commit(check_reply(P0, msg, EmptyEnv))
    /\ handlers' = Tail(handlers)
    /\ UNCHANGED <<receive_message_count, ask_pool, pong_event, last_ping_id,
                   inbox, rxpc, rxlog, log, asks, tells, hb, sockets, delivered,
                   pong_src,
                   clock, last_msg_time, last_msg_time_sum,
                   last_pub_sub_reconnect, idle, rxsock, stopped, inst2>>

RunPong ==
    /\ handlers # <<>>
    /\ Head(handlers)["Message"] = "Pong"
    /\ LET msg == Head(handlers) IN
         /\ last_ping_id' = msg["PingId"]
         /\ pong_event' = TRUE
         /\ pong_src' = IF pong_event THEN pong_src ELSE msg["PingId"]
    /\ handlers' = Tail(handlers)
    /\ UNCHANGED <<settings, sent_message_count, receive_message_count, ask_pool,
                   inbox, wire, outbox, rxpc, rxlog, log, asks, tells, hb,
                   sockets, nextId, delivered,
                   clock, last_msg_time, last_msg_time_sum,
                   last_pub_sub_reconnect, idle, rxsock, stopped, inst2>>

\* on_KeepAlive, on_Subscribe, on_Start: no state change
RunOther ==
    /\ handlers # <<>>
    /\ Head(handlers)["Message"] \in {"KeepAlive", "Subscribe", "Start"}
    /\ handlers' = Tail(handlers)
    /\ UNCHANGED <<settings, sent_message_count, receive_message_count, ask_pool,
                   pong_event, last_ping_id, inbox, wire, outbox, rxpc, rxlog,
                   log, asks, tells, hb, sockets, nextId, delivered, pong_src,
                   clock, last_msg_time, last_msg_time_sum,
                   last_pub_sub_reconnect, idle, rxsock, stopped, inst2>>

----------------------------------------------------------------------------
(* tell() and ask() called by application greenlets *)

TellPeer == {[Message |-> "Hello", To |-> "peer"]}

TellSelf == {[Message |-> "Ping", To |-> uid]}

AskPeer == {[Message |-> "Query", To |-> "peer"]}

AskSelf == {[Message |-> "Ping", To |-> uid]}

AppTell(M) ==
    /\ tells < MaxTell
    /\ \E m \in M : Commit(tell(P0, m))
    /\ tells' = tells + 1
    /\ UNCHANGED <<settings, receive_message_count, ask_pool, pong_event,
                   last_ping_id, inbox, handlers, rxpc, rxlog, log, asks, hb,
                   sockets, delivered, pong_src,
                   clock, last_msg_time, last_msg_time_sum,
                   last_pub_sub_reconnect, idle, rxsock, stopped, inst2>>

\* ask() up to the Event.wait: the entry is created, then the envelope is
\* sent.  If the send raises, ask() ends there and the entry stays.
AskSend(t, M) ==
    /\ asks[t].st = "idle"
    /\ \A s \in 1..(t - 1) : asks[s].st # "idle"
    /\ \E m \in M :
         LET P == ask_send(P0, m)
             id == nextId
         IN  /\ Commit(P)
             /\ ask_pool' = (id :> [event |-> FALSE, result |-> EmptyEnv]) @@ ask_pool
             /\ asks' = [asks EXCEPT ![t] =
                            [@ EXCEPT !.st = IF P.err THEN "raised" ELSE "waiting",
                                      !.id = id]]
    /\ UNCHANGED <<settings, receive_message_count, pong_event, last_ping_id,
                   inbox, handlers, rxpc, rxlog, log, tells, hb, sockets,
                   delivered, pong_src,
                   clock, last_msg_time, last_msg_time_sum,
                   last_pub_sub_reconnect, idle, rxsock, stopped, inst2>>

\* faulty variant of ask_reply: the entry is deleted before its result is read
ask_reply_returns_empty(pool, id) ==
    [pool |-> [i \in DOMAIN pool \ {id} |-> pool[i]], ret |-> EmptyEnv]

\* Event.wait returned True: take the result and delete the entry
ask_reply(pool, id) ==
    [pool |-> [i \in DOMAIN pool \ {id} |-> pool[i]], ret |-> pool[id].result]

\* Event.wait returned False: log the warning and return {}
ask_timeout(pool, id) == [pool |-> pool, ret |-> EmptyEnv]

AskReturn(t) ==
    /\ asks[t].st = "waiting"
    /\ ask_pool[asks[t].id].event
    /\ LET r == ask_reply(ask_pool, asks[t].id) IN
         /\ ask_pool' = r.pool
         /\ asks' = [asks EXCEPT ![t] =
                        [@ EXCEPT !.st = "done", !.ret = r.ret, !.at = Len(rxlog)]]
    /\ UNCHANGED <<settings, sent_message_count, receive_message_count,
                   pong_event, last_ping_id, inbox, wire, outbox, handlers, rxpc,
                   rxlog, log, tells, hb, sockets, nextId, delivered, pong_src,
                   clock, last_msg_time, last_msg_time_sum,
                   last_pub_sub_reconnect, idle, rxsock, stopped, inst2>>

AskTimeout(t) ==
    /\ asks[t].st = "waiting"
    /\ ~ask_pool[asks[t].id].event
    /\ LET r == ask_timeout(ask_pool, asks[t].id) IN
         /\ ask_pool' = r.pool
         /\ asks' = [asks EXCEPT ![t] =
                        [@ EXCEPT !.st = "done", !.ret = r.ret, !.at = Len(rxlog)]]
    /\ log' = Append(log, [level |-> "warning", what |-> "no reply", id |-> asks[t].id])
    /\ UNCHANGED <<settings, sent_message_count, receive_message_count,
                   pong_event, last_ping_id, inbox, wire, outbox, handlers, rxpc,
                   rxlog, tells, hb, sockets, nextId, delivered, pong_src,
                   clock, last_msg_time, last_msg_time_sum,
                   last_pub_sub_reconnect, idle, rxsock, stopped, inst2>>

----------------------------------------------------------------------------
(* The heartbeat: ping() *)

\* faulty variant of ping_must_reconnect: the PingId is not compared
ping_reconnect_on_timeout_only(woke, last, ret) == ~woke

\* after pong_event.wait(timeout=5) returned: woke is its result, last is
\* self.last_ping_id, ret the Id of the Ping just sent

ping_must_reconnect(woke, last, ret) == ~woke \/ last # ret

\* the rest of the round once the wait is over.  On sockets that stop() has
\* closed the reconnect raises at its first call and ends the greenlet.
AfterWait(h, woke, ret) ==
    /\ pong_event' = FALSE
    /\ pong_src' = 0
    /\ IF ping_must_reconnect(woke, last_ping_id, ret)
       THEN /\ last_pub_sub_reconnect' = IF woke THEN last_pub_sub_reconnect ELSE clock
            /\ IF disconnect_raises(sockets)
               THEN /\ log' = log \o
                        (IF woke THEN <<[level |-> "warning", what |-> "ping id mismatch",
                                         id |-> ret]>>
                                 ELSE <<>>)
                    /\ hb' = [h EXCEPT !.pc = "dead"]
                    /\ UNCHANGED <<sockets, inbox>>
               ELSE /\ sockets' = reconnect_pub_sub(sockets)
                    /\ inbox' = <<>>
                    /\ log' = log \o
                        (IF woke THEN <<[level |-> "warning", what |-> "ping id mismatch",
                                         id |-> ret]>>
                                 ELSE <<>>)
                        \o <<[level |-> "warning", what |-> "reconnected", id |-> ret]>>
                    /\ hb' = [h EXCEPT !.pc = "backoff"]
       ELSE /\ hb' = [h EXCEPT !.pc = "interval"]
            /\ UNCHANGED <<sockets, inbox, log, last_pub_sub_reconnect>>

\* gevent.sleep(1), then PingInterval is read once
HbStart ==
    /\ hb.pc = "start"
    /\ hb' = [hb EXCEPT !.interval = settings["PingInterval"],
                        !.pc = IF settings["PingInterval"] = 0 THEN "off" ELSE "settle"]
    /\ UNCHANGED <<settings, sent_message_count, receive_message_count, ask_pool,
                   pong_event, last_ping_id, inbox, wire, outbox, handlers, rxpc,
                   rxlog, log, asks, tells, sockets, nextId, delivered, pong_src,
                   clock, last_msg_time, last_msg_time_sum,
                   last_pub_sub_reconnect, idle, rxsock, stopped, inst2>>

\* a sleep ended: tell the Ping and wait for the pong.  If pong_event is
\* already set the wait returns at once, without a switch.  If the tell
\* raises (PUB socket closed) the greenlet ends.
HbSend ==
    /\ hb.pc \in {"settle", "interval"}
    /\ hb.rounds < MaxRounds
    /\ LET P == tell(P0, [Message |-> "Ping", To |-> uid])
           ret == nextId
       IN  /\ Commit(P)
           /\ IF P.err
              THEN /\ hb' = [hb EXCEPT !.pc = "dead", !.rounds = @ + 1]
                   /\ UNCHANGED <<pong_event, pong_src, sockets, inbox, log,
                                  last_pub_sub_reconnect>>
              ELSE IF pong_event
              THEN AfterWait([hb EXCEPT !.ret = ret, !.rounds = @ + 1], TRUE, ret)
              ELSE /\ hb' = [hb EXCEPT !.pc = "await", !.ret = ret, !.rounds = @ + 1]
                   /\ UNCHANGED <<pong_event, pong_src, sockets, inbox, log,
                                  last_pub_sub_reconnect>>
    /\ UNCHANGED <<settings, receive_message_count, ask_pool, last_ping_id,
                   handlers, rxpc, rxlog, asks, tells, delivered, clock,
                   last_msg_time, last_msg_time_sum, idle, rxsock, stopped, inst2>>

\* pong_event.wait returned True after blocking
HbPong ==
    /\ hb.pc = "await"
    /\ pong_event
    /\ AfterWait(hb, TRUE, hb.ret)
    /\ UNCHANGED <<settings, sent_message_count, receive_message_count, ask_pool,
                   last_ping_id, wire, outbox, handlers, rxpc, rxlog, asks, tells,
                   nextId, delivered, clock, last_msg_time, last_msg_time_sum,
                   idle, rxsock, stopped, inst2>>

\* pong_event.wait timed out after 5 seconds
HbTimeout ==
    /\ hb.pc = "await"
    /\ ~pong_event
    /\ AfterWait(hb, FALSE, hb.ret)
    /\ UNCHANGED <<settings, sent_message_count, receive_message_count, ask_pool,
                   last_ping_id, wire, outbox, handlers, rxpc, rxlog, asks, tells,
                   nextId, delivered, clock, last_msg_time, last_msg_time_sum,
                   idle, rxsock, stopped, inst2>>

\* gevent.sleep(1) after a reconnect is over; gevent.sleep(ping_interval) starts
HbBackoff ==
    /\ hb.pc = "backoff"
    /\ hb' = [hb EXCEPT !.pc = "interval"]
    /\ UNCHANGED <<settings, sent_message_count, receive_message_count, ask_pool,
                   pong_event, last_ping_id, inbox, wire, outbox, handlers, rxpc,
                   rxlog, log, asks, tells, sockets, nextId, delivered, pong_src,
                   clock, last_msg_time, last_msg_time_sum,
                   last_pub_sub_reconnect, idle, rxsock, stopped, inst2>>

----------------------------------------------------------------------------
(* A second ZActor in the same process.  The class body creates ask_pool,   *)
(* pong_event and settings once; __init__ binds none of them on the         *)
(* instance, so self.ask_pool, self.pong_event and self.settings of every   *)
(* instance are those objects, and the methods change them in place.  An    *)
(* assignment self.x = v (also self.x += 1) binds x on the instance.  The   *)
(* variables of the model are the first instance's view; inst2 holds what   *)
(* is bound on the second.                                                  *)

\* what the class holds under name n: the shared objects, and for the
\* numbers the value of the class body, which nothing rebinds (0 also
\* stands for last_ping_id not being set)
class_attr(n) ==
    CASE n = "ask_pool" -> ask_pool
      [] n = "pong_event" -> pong_event
      [] n = "settings" -> settings
      [] OTHER -> 0

\* self.n on the second instance: its own binding if it has one, else the
\* class attribute
getattr2(n) == IF n \in DOMAIN inst2 THEN inst2[n] ELSE class_attr(n)

\* the second instance's on_Pong runs for a Pong addressed to it
Pong2 ==
    /\ delivered < MaxDeliver
    /\ delivered' = delivered + 1
    /\ inst2' = ("last_ping_id" :> 999) @@ inst2
    /\ pong_event' = TRUE
    /\ pong_src' = IF pong_event THEN pong_src ELSE 999
    /\ UNCHANGED <<settings, sent_message_count, receive_message_count, ask_pool,
                   last_ping_id, inbox, wire, outbox, handlers, rxpc, rxlog, log,
                   asks, tells, hb, sockets, nextId, clock, last_msg_time,
                   last_msg_time_sum, last_pub_sub_reconnect, idle, rxsock,
                   stopped>>

\* the second instance tells an envelope to a peer: its counter is bound on
\* the instance by the increment
Tell2 ==
    /\ getattr2("sent_message_count") < MaxTell
    /\ inst2' = ("sent_message_count" :> (getattr2("sent_message_count") + 1)) @@ inst2
    /\ nextId' = nextId + 1
    /\ UNCHANGED <<settings, sent_message_count, receive_message_count, ask_pool,
                   pong_event, last_ping_id, inbox, wire, outbox, handlers, rxpc,
                   rxlog, log, asks, tells, hb, sockets, delivered, pong_src,
                   clock, last_msg_time, last_msg_time_sum,
                   last_pub_sub_reconnect, idle, rxsock, stopped>>

----------------------------------------------------------------------------
(* Shutdown *)

\* SIGINT or SIGTERM: the hub runs stop().  The frames queued on the SUB
\* socket go with it.  A second signal finds the sockets closed: its
\* setsockopt raises and changes nothing.
Stop ==
    /\ ~stopped
    /\ stopped' = TRUE
    /\ sockets' = stop(sockets)
    /\ inbox' = <<>>
    /\ UNCHANGED <<settings, sent_message_count, receive_message_count, ask_pool,
                   pong_event, last_ping_id, wire, outbox, handlers, rxpc, rxlog,
                   log, asks, tells, hb, nextId, delivered, pong_src, clock,
                   last_msg_time, last_msg_time_sum, last_pub_sub_reconnect, idle,
                   rxsock, inst2>>

\* the hub gets to run: no greenlet is looping without a blocking call
HubRuns == rxpc # "spin"

----------------------------------------------------------------------------
(* The clock and the idle watchdog: check_idle() *)

Tick ==
    /\ clock < MaxClock
    /\ clock' = clock + 1
    /\ UNCHANGED <<settings, sent_message_count, receive_message_count, ask_pool,
                   pong_event, last_ping_id, inbox, wire, outbox, handlers, rxpc,
                   rxlog, log, asks, tells, hb, sockets, nextId, delivered,
                   pong_src, last_msg_time, last_msg_time_sum,
                   last_pub_sub_reconnect, idle, rxsock, stopped, inst2>>

\* faulty variant of idle_total: every warning starts from zero
idle_total_restarts(sum, T) == T

\* self.last_msg_time_sum += idle_timeout
idle_total(sum, T) == sum + T

\* one pass of the while loop, up to gevent.sleep(idle_timeout)
IdleRound(T) ==
    /\ IF clock - last_msg_time > T
       THEN LET total == idle_total(last_msg_time_sum, T) IN
              /\ last_msg_time_sum' = total
              /\ log' = Append(log, [level |-> "warning", what |-> "idle",
                                     id |-> 0, total |-> total])
       ELSE UNCHANGED <<last_msg_time_sum, log>>
    /\ idle' = [pc |-> "sleep", timeout |-> T, wake |-> clock + T]

\* check_idle() starts: IdleTimeout is read once; 0 disables the watchdog,
\* otherwise the first check is made at once
IdleStart ==
    /\ idle.pc = "start"
    /\ IF settings["IdleTimeout"] = 0
       THEN /\ idle' = [idle EXCEPT !.pc = "off"]
            /\ UNCHANGED <<last_msg_time_sum, log>>
       ELSE IdleRound(settings["IdleTimeout"])
    /\ UNCHANGED <<settings, sent_message_count, receive_message_count, ask_pool,
                   pong_event, last_ping_id, inbox, wire, outbox, handlers, rxpc,
                   rxlog, asks, tells, hb, sockets, nextId, delivered, pong_src,
                   clock, last_msg_time, last_pub_sub_reconnect, rxsock, stopped,
                   inst2>>

\* gevent.sleep(idle_timeout) is over: the next check
IdleWake ==
    /\ idle.pc = "sleep"
    /\ clock >= idle.wake
    /\ IdleRound(idle.timeout)
    /\ UNCHANGED <<settings, sent_message_count, receive_message_count, ask_pool,
                   pong_event, last_ping_id, inbox, wire, outbox, handlers, rxpc,
                   rxlog, asks, tells, hb, sockets, nextId, delivered, pong_src,
                   clock, last_msg_time, last_pub_sub_reconnect, rxsock, stopped,
                   inst2>>

----------------------------------------------------------------------------
(* The bus: what peers publish to this actor, and the actor's own envelopes *)
(* coming back on its subscription                                          *)

AskedIds == {asks[t].id : t \in {u \in DOMAIN asks : asks[u].st # "idle"}}

PeerReplies ==
    {[Message |-> "QueryReply", From |-> "peer", To |-> uid, ReplyToId |-> i] :
        i \in AskedIds \cup {999}}

PeerTells == {[Message |-> "Ping", From |-> "peer", To |-> uid]}

PeerPings ==
    PeerTells
    \cup {[Message |-> "Ping", From |-> "peer", To |-> uid, ReplyTo |-> r] :
            r \in {<<>>, <<"peer">>, <<"peer", "other">>}}

PeerPongs == {[Message |-> "Pong", From |-> "peer", To |-> uid, PingId |-> 999]}

PeerSettings ==
    {[Message |-> "UpdateSettings", From |-> "peer", To |-> uid, B |-> 3, C |-> 4],
     [Message |-> "UpdateSettings", From |-> "peer", To |-> uid, B |-> 3,
      ReplyTo |-> <<"peer">>],
     [Message |-> "UpdateSettings", From |-> "peer", To |-> uid, PingInterval |-> 1]}

PeerOther ==
    {[Message |-> "Foo", From |-> "peer", To |-> uid],
     [Message |-> "KeepAlive", From |-> "peer", To |-> uid]}

BadFrames ==
    {[parts |-> 2, json |-> FALSE, msg |-> EmptyEnv],
     [parts |-> 1, json |-> TRUE, msg |-> EmptyEnv]}

\* a peer's envelope arrives; its Id is the peer's fresh uuid.  The frames
\* queued on a SUB socket are lost when ping() closes it (LINGER 0).
Deliver(S) ==
    /\ delivered < MaxDeliver
    /\ \E e \in S :
         inbox' = Append(inbox, Frame(Update(e, [Id |-> 100 + delivered])))
    /\ delivered' = delivered + 1
    /\ UNCHANGED <<settings, sent_message_count, receive_message_count, ask_pool,
                   pong_event, last_ping_id, wire, outbox, handlers, rxpc, rxlog,
                   log, asks, tells, hb, sockets, nextId, pong_src,
                   clock, last_msg_time, last_msg_time_sum,
                   last_pub_sub_reconnect, idle, rxsock, stopped, inst2>>

DeliverBad ==
    /\ delivered < MaxDeliver
    /\ \E f \in BadFrames : inbox' = Append(inbox, f)
    /\ delivered' = delivered + 1
    /\ UNCHANGED <<settings, sent_message_count, receive_message_count, ask_pool,
                   pong_event, last_ping_id, wire, outbox, handlers, rxpc, rxlog,
                   log, asks, tells, hb, sockets, nextId, pong_src,
                   clock, last_msg_time, last_msg_time_sum,
                   last_pub_sub_reconnect, idle, rxsock, stopped, inst2>>

\* an envelope this actor published to its own topic arrives
Loopback ==
    /\ wire # <<>>
    /\ inbox' = Append(inbox, Frame(Head(wire)))
    /\ wire' = Tail(wire)
    /\ UNCHANGED <<settings, sent_message_count, receive_message_count, ask_pool,
                   pong_event, last_ping_id, outbox, handlers, rxpc, rxlog, log,
                   asks, tells, hb, sockets, nextId, delivered, pong_src,
                   clock, last_msg_time, last_msg_time_sum,
                   last_pub_sub_reconnect, idle, rxsock, stopped, inst2>>

----------------------------------------------------------------------------
(* Specifications *)

InitSettings(p) ==
    [PingInterval |-> p, IdleTimeout |-> 200, Trace |-> TRUE, A |-> 1, B |-> 2]

\* the state after __init__, settings apart
Boot0 ==
    /\ sent_message_count = 0
    /\ receive_message_count = 0
    /\ ask_pool = EmptyEnv
    /\ pong_event = FALSE
    /\ last_ping_id = 0
    /\ inbox = <<>>
    /\ wire = <<>>
    /\ outbox = <<>>
    /\ handlers = <<>>
    /\ rxpc = "recv"
    /\ rxlog = <<>>
    /\ log = <<>>
    /\ asks = [t \in 1..MaxAsk |-> [st |-> "idle", id |-> 0, ret |-> EmptyEnv, at |-> 0]]
    /\ tells = 0
    /\ hb = [pc |-> "start", ret |-> 0, interval |-> 0, rounds |-> 0]
    /\ sockets = [pub |-> [gen |-> 1, open |-> TRUE], sub |-> [gen |-> 1, open |-> TRUE]]
    /\ nextId = 1
    /\ delivered = 0
    /\ pong_src = 0
    /\ clock = 0
    /\ last_msg_time = 0
    /\ last_msg_time_sum = 0
    /\ last_pub_sub_reconnect = 0
    /\ idle = [pc |-> "start", timeout |-> 0, wake |-> 0]
    /\ rxsock = 1
    /\ stopped = FALSE
    /\ inst2 = [last_pub_sub_reconnect |-> 0]

\* the state after __init__, with PingInterval one of S
Boot(S) ==
    /\ \E p \in S : settings = InitSettings(p)
    /\ Boot0

Run ==
    \/ Receive
    \/ RunPing
    \/ RunUpdateSettings
    \/ RunPong
    \/ RunOther
    \/ Loopback
    \/ \E cause \in {"closed", "fault"} : ReadError(cause)

Heartbeat ==
    \/ HbStart
    \/ HbSend
    \/ HbPong
    \/ HbTimeout
    \/ HbBackoff

Init == Boot({0, 1})

\* PingInterval is 0 (the class default): ping() ends at once
InitNoPing == Boot({0})

Asking(M) ==
    \/ \E t \in 1..MaxAsk : AskSend(t, M)
    \/ \E t \in 1..MaxAsk : AskReturn(t)
    \/ \E t \in 1..MaxAsk : AskTimeout(t)

Next ==
    /\ HubRuns
    /\ \/ Run
       \/ Heartbeat
       \/ Tick
       \/ IdleStart
       \/ IdleWake
       \/ Stop
       \/ Pong2
       \/ Tell2
       \/ Asking(AskPeer \cup AskSelf)
       \/ AppTell(TellPeer \cup TellSelf)
       \/ Deliver(PeerReplies \cup PeerPings \cup PeerPongs \cup PeerSettings
                  \cup PeerOther)
       \/ DeliverBad

Spec == Init /\ [][Next]_vars

\* The ask protocol against peers that reply, reply twice, reply to nobody,
\* send unknown messages or frames that do not decode.
NextAsk ==
    \/ Asking(AskPeer)
    \/ Receive
    \/ RunOther
    \/ Deliver(PeerReplies \cup PeerOther)
    \/ DeliverBad

SpecAsk == InitNoPing /\ [][NextAsk]_vars

\* Every sender of the actor at work: the application's tell and one ask, and
\* the handlers and the wrapper answering the actor's own Ping.
NextSend ==
    \/ AskSend(1, AskSelf)
    \/ AskReturn(1)
    \/ AskTimeout(1)
    \/ AppTell(TellSelf)
    \/ Receive
    \/ RunPing
    \/ RunPong
    \/ Loopback

SpecSend == InitNoPing /\ [][NextSend]_vars

\* The control handlers against peers that send Ping and UpdateSettings, by
\* tell and by ask.
NextCtl ==
    \/ Receive
    \/ RunPing
    \/ RunUpdateSettings
    \/ RunOther
    \/ Deliver(PeerPings \cup PeerSettings \cup PeerOther)

SpecCtl == InitNoPing /\ [][NextCtl]_vars

\* The heartbeat against a bus that returns the actor's own Ping and Pong,
\* late or not at all, and peers that send stale pongs.
NextHb ==
    \/ Heartbeat
    \/ Receive
    \/ RunPing
    \/ RunPong
    \/ Loopback
    \/ Deliver(PeerPongs)
    \/ ReadError("closed")

SpecHb == Init /\ [][NextHb]_vars

\* The heartbeat and the receive loop against a bus that returns the actor's
\* own Ping and Pong, late or not at all.
NextRc ==
    \/ Heartbeat
    \/ Receive
    \/ RunPing
    \/ RunPong
    \/ Loopback
    \/ ReadError("closed")

\* close() wakes the greenlet blocked in the read, and the hub runs every
\* greenlet that is ready: the receive loop gets its turn
SpecRc ==
    /\ Init
    /\ [][NextRc]_vars
    /\ WF_vars(Receive)
    /\ WF_vars(ReadError("closed"))

\* IdleTimeout is 0 (watchdog off), 1 or 2 seconds; PingInterval is 0
InitIdle ==
    /\ \E i \in {0, 1, 2} : settings = [InitSettings(0) EXCEPT !.IdleTimeout = i]
    /\ Boot0

\* The idle watchdog against a clock and peers that send now and then.
NextIdle ==
    \/ Tick
    \/ IdleStart
    \/ IdleWake
    \/ Receive
    \/ RunOther
    \/ Deliver(PeerOther)

SpecIdle == InitIdle /\ [][NextIdle]_vars

\* The receive loop against read errors: a bus that does not return the
\* heartbeat's Ping (the wait times out and ping() reconnects), transport
\* faults, a clock, and peers that send now and then.
NextRx ==
    \/ Tick
    \/ HbStart
    \/ HbSend
    \/ HbTimeout
    \/ HbBackoff
    \/ \E cause \in {"closed", "fault"} : ReadError(cause)
    \/ Receive
    \/ RunOther
    \/ Deliver(PeerOther)

SpecRx == Init /\ [][NextRx]_vars

\* Dispatch while handlers are unfinished and an ask is waiting: peers that
\* reply, send Ping and send other messages.
NextDisp ==
    \/ AskSend(1, AskPeer)
    \/ AskReturn(1)
    \/ AskTimeout(1)
    \/ Receive
    \/ RunPing
    \/ RunOther
    \/ Deliver(PeerReplies \cup PeerTells \cup PeerOther)

\* the receive greenlet runs when a frame is there; nothing is assumed of the
\* handlers and of the asker, which may stay suspended for ever
SpecDisp ==
    /\ InitNoPing
    /\ [][NextDisp]_vars
    /\ WF_vars(Receive)

\* Two actors in one process: the first asks, handles Pong and
\* UpdateSettings and receives; the second handles a Pong and tells.
NextTwo ==
    \/ AskSend(1, AskPeer)
    \/ AskReturn(1)
    \/ AskTimeout(1)
    \/ Receive
    \/ RunPong
    \/ RunUpdateSettings
    \/ Deliver(PeerReplies \cup PeerPongs \cup PeerSettings)
    \/ Pong2
    \/ Tell2

SpecTwo == InitNoPing /\ [][NextTwo]_vars

\* Shutdown while the heartbeat runs.  Once the receive loop spins on the
\* closed socket nothing else is scheduled.
NextStop ==
    \/ ReadError("closed")
    \/ HubRuns /\ Stop
    \/ HubRuns /\ HbStart
    \/ HubRuns /\ HbSend
    \/ HubRuns /\ HbPong
    \/ HubRuns /\ HbTimeout
    \/ HubRuns /\ HbBackoff
    \/ HubRuns /\ Receive
    \/ HubRuns /\ RunPing
    \/ HubRuns /\ RunPong
    \/ HubRuns /\ Loopback

SpecStop == Init /\ [][NextStop]_vars

\* Shutdown, or a heartbeat that times out and reconnects, while an ask is
\* in flight to a peer that replies or not.
NextAskStop ==
    \/ ReadError("closed")
    \/ HubRuns /\ Stop
    \/ HubRuns /\ HbStart
    \/ HubRuns /\ HbSend
    \/ HubRuns /\ HbTimeout
    \/ HubRuns /\ HbBackoff
    \/ HubRuns /\ AskSend(1, AskPeer)
    \/ HubRuns /\ AskReturn(1)
    \/ HubRuns /\ AskTimeout(1)
    \/ HubRuns /\ Receive
    \/ HubRuns /\ Deliver(PeerReplies)

\* the greenlet waiting in Event.wait(timeout) or woken by close() runs
\* when it is ready, provided the hub runs
AskWaitOver(t) == HubRuns /\ (AskReturn(t) \/ AskTimeout(t))

SpecAskStop ==
    /\ Init
    /\ [][NextAskStop]_vars
    /\ WF_vars(AskWaitOver(1))
    /\ WF_vars(ReadError("closed"))

----------------------------------------------------------------------------
(* Properties of the ask protocol *)

IsReply(m) == Has(m, "ReplyToId")

\* the positions in rxlog[1..n] of the replies to the envelope with Id i
RepliesFor(i, n) == {k \in 1..n : IsReply(rxlog[k]) /\ rxlog[k]["ReplyToId"] = i}

Done(t) == asks[t].st = "done"

\* the replies to ask t that receive() processed before the ask returned
RepliesSeen(t) == RepliesFor(asks[t].id, asks[t].at)

\* C1: an ask whose reply the receive loop processed before the timeout
\* returns that reply envelope as decoded by the loop (not an empty result,
\* not an envelope that answers another Id), and once it has returned
\* ask_pool has no entry for its Id.
C1_AskReturnsReply ==
    \A t \in DOMAIN asks :
        (Done(t) /\ RepliesSeen(t) # {}) =>
            /\ asks[t].ret \in {rxlog[k] : k \in RepliesSeen(t)}
            /\ asks[t].ret # EmptyEnv
            /\ asks[t].ret["ReplyToId"] = asks[t].id
            /\ asks[t].id \notin DOMAIN ask_pool

C1_Witness ==
    \E t \in DOMAIN asks :
        /\ Done(t)
        /\ Cardinality(RepliesSeen(t)) = 1
        /\ \E k \in RepliesSeen(t) : asks[t].ret = rxlog[k]
        /\ asks[t].id \notin DOMAIN ask_pool

\* C2: an ask that got no reply within the timeout returns an empty result,
\* and ask_pool holds entries only for the ask calls that are still waiting.
C2_NoLeak ==
    /\ \A t \in DOMAIN asks :
          (Done(t) /\ RepliesSeen(t) = {}) => asks[t].ret = EmptyEnv
    /\ \A i \in DOMAIN ask_pool :
          \E t \in DOMAIN asks : asks[t].st = "waiting" /\ asks[t].id = i

\* C3: asks in flight have distinct Ids and an entry each, and an ask that
\* returns a reply returns one whose ReplyToId is its own Id, whatever the
\* order in which the replies were processed.
C3_AsksIndependent ==
    /\ \A t, u \in DOMAIN asks :
          (t # u /\ asks[t].st # "idle" /\ asks[u].st # "idle") =>
              asks[t].id # asks[u].id
    /\ \A t \in DOMAIN asks :
          asks[t].st = "waiting" => asks[t].id \in DOMAIN ask_pool
    /\ \A t \in DOMAIN asks :
          (Done(t) /\ asks[t].ret # EmptyEnv) =>
              /\ asks[t].ret["ReplyToId"] = asks[t].id
              /\ asks[t].ret \in {rxlog[k] : k \in RepliesSeen(t)}
    /\ \A t \in DOMAIN asks :
          (Done(t) /\ RepliesSeen(t) # {}) => asks[t].ret # EmptyEnv

\* both asks were waiting together, the reply to the second was processed
\* first, and each got its own
C3_Witness ==
    /\ Len(rxlog) >= 2
    /\ Done(1) /\ Done(2)
    /\ asks[2].ret = rxlog[1]
    /\ asks[1].ret = rxlog[2]
    /\ rxlog[1]["ReplyToId"] = asks[2].id
    /\ rxlog[2]["ReplyToId"] = asks[1].id

----------------------------------------------------------------------------
(* Properties of the stamped headers *)

Told(k) == outbox[k].via = "tell"
Asked(k) == outbox[k].via = "ask"

\* C4: an envelope published by tell has an Id that no other envelope the
\* actor has sent (by tell or by ask) carries, and the Sequence values of
\* the envelopes published by tell increase strictly in publication order.
C4_TellIdsAndSequence ==
    /\ \A j, k \in 1..Len(outbox) :
          (Told(j) /\ j # k) => outbox[j].env["Id"] # outbox[k].env["Id"]
    /\ \A j, k \in 1..Len(outbox) :
          (Told(j) /\ Told(k) /\ j < k) =>
              outbox[j].env["Sequence"] < outbox[k].env["Sequence"]

\* a tell by the application, then an ask, then a tell by a handler
C4_Witness ==
    \E j, k, l \in 1..Len(outbox) :
        /\ j < k /\ k < l
        /\ Told(j) /\ Asked(k) /\ Told(l)
        /\ outbox[j].env["Message"] = "Ping"
        /\ outbox[l].env["Message"] \in {"Pong", "PingReply"}
        /\ outbox[l].env["Sequence"] > outbox[j].env["Sequence"] + 1

\* C5: an envelope published by ask carries Id, SendTime, From and Sequence,
\* Sequence being the sent counter after the increment for this send, and
\* ReplyTo = [own identity].
C5_AskStampsSequence ==
    \A k \in 1..Len(outbox) :
        Asked(k) =>
            /\ {"Id", "SendTime", "From", "Sequence", "ReplyTo"} \subseteq
                   DOMAIN outbox[k].env
            /\ outbox[k].env["From"] = uid
            /\ outbox[k].env["ReplyTo"] = <<uid>>
            /\ outbox[k].env["Sequence"] = outbox[k].cnt

----------------------------------------------------------------------------
(* Properties of the control handlers *)

\* this step runs the handler greenlet spawned for a message named name
HandlerStep(name) ==
    /\ handlers # <<>>
    /\ Head(handlers)["Message"] = name
    /\ handlers' = Tail(handlers)

\* this step is an iteration of receive() that decoded an envelope
ReceiveStep == Len(rxlog') = Len(rxlog) + 1

Received == rxlog'[Len(rxlog')]

\* what this step published
NewOut == SubSeq(outbox', Len(outbox) + 1, Len(outbox'))

IsPong(e) == e.env["Message"] = "Pong"

IsReplyOut(e) == IsReply(e.env)

\* C6: handling an UpdateSettings envelope adds no header key to settings
\* and changes none, gives every non-header key of the envelope the
\* envelope's value, and leaves every key the envelope does not hold as it
\* was.
C6_OnlyPayloadMerged ==
    [][HandlerStep("UpdateSettings") =>
         LET msg == Head(handlers) IN
           /\ \A k \in HeaderKeys :
                 /\ k \in DOMAIN settings' <=> k \in DOMAIN settings
                 /\ k \in DOMAIN settings => settings'[k] = settings[k]
           /\ \A k \in DOMAIN msg \ HeaderKeys :
                 k \in DOMAIN settings' /\ settings'[k] = msg[k]
           /\ \A k \in DOMAIN settings \ DOMAIN msg :
                 k \in DOMAIN settings' /\ settings'[k] = settings[k]]_vars

\* C7: receive() spawns on_Ping once for an inbound Ping; for a Ping without
\* ReplyTo the handler publishes one envelope, a Pong with To = the Ping's
\* From and PingId = the Ping's Id (so no PingReply); for a Ping with ReplyTo
\* it publishes no Pong; and nothing else publishes a Pong.
C7_PingPong ==
    [][/\ (ReceiveStep /\ ~IsReply(Received) /\ Received["Message"] = "Ping") =>
            handlers' = Append(handlers, Received)
       /\ HandlerStep("Ping") =>
            LET p == Head(handlers) IN
              IF ~HasReplyTo(p)
              THEN /\ Len(NewOut) = 1
                   /\ IsPong(NewOut[1])
                   /\ NewOut[1].env["To"] = p["From"]
                   /\ NewOut[1].env["PingId"] = p["Id"]
              ELSE \A k \in 1..Len(NewOut) : ~IsPong(NewOut[k])
       /\ ~HandlerStep("Ping") =>
            \A k \in 1..Len(NewOut) : ~IsPong(NewOut[k])]_vars

\* a Ping without ReplyTo was answered by a Pong, and a Ping with ReplyTo was
\* handled without one
C7_Witness ==
    /\ handlers = <<>>
    /\ \E j, l \in 1..Len(rxlog) :
          /\ rxlog[j]["Message"] = "Ping" /\ ~HasReplyTo(rxlog[j])
          /\ rxlog[l]["Message"] = "Ping" /\ HasReplyTo(rxlog[l])
          /\ \E k \in 1..Len(outbox) :
                /\ IsPong(outbox[k])
                /\ outbox[k].env["PingId"] = rxlog[j]["Id"]
                /\ outbox[k].env["To"] = rxlog[j]["From"]
          /\ \A k \in 1..Len(outbox) :
                IsPong(outbox[k]) => outbox[k].env["PingId"] # rxlog[l]["Id"]

\* C8: after on_Ping or on_UpdateSettings has handled an envelope m with a
\* non-empty ReplyTo, the step has published one reply per listed target, in
\* order, each with To = the target, Message = m.Message + "Reply",
\* ReplyToId = m.Id and an Id of its own that no envelope carried before; for
\* an m without ReplyTo no reply is published.
C8_AutoReply ==
    [][\A name \in {"Ping", "UpdateSettings"} :
         HandlerStep(name) =>
           LET m == Head(handlers)
               replies == SelectSeq(NewOut, IsReplyOut)
           IN  IF HasReplyTo(m)
               THEN /\ replies = NewOut
                    /\ Len(replies) = Len(m["ReplyTo"])
                    /\ \A n \in 1..Len(replies) :
                          /\ replies[n].env["To"] = m["ReplyTo"][n]
                          /\ replies[n].env["Message"] = ReplyName(name)
                          /\ replies[n].env["ReplyToId"] = m["Id"]
                          /\ replies[n].env["Id"] # m["Id"]
                          /\ \A j \in 1..Len(outbox) :
                                outbox[j].env["Id"] # replies[n].env["Id"]
                          /\ \A j \in 1..Len(replies) :
                                j # n => replies[j].env["Id"] # replies[n].env["Id"]
               ELSE replies = <<>>]_vars

\* an envelope with two reply targets has been answered, one reply each
C8_Witness ==
    \E j \in 1..Len(rxlog) :
        /\ HasReplyTo(rxlog[j]) /\ Len(rxlog[j]["ReplyTo"]) = 2
        /\ \E k \in 1..Len(outbox) :
              /\ k < Len(outbox)
              /\ outbox[k].env["ReplyToId"] = rxlog[j]["Id"]
              /\ outbox[k + 1].env["ReplyToId"] = rxlog[j]["Id"]
              /\ outbox[k].env["To"] = rxlog[j]["ReplyTo"][1]
              /\ outbox[k + 1].env["To"] = rxlog[j]["ReplyTo"][2]
              /\ outbox[k].env["Id"] # outbox[k + 1].env["Id"]

----------------------------------------------------------------------------
(* Properties of the receive loop *)

\* no on_<Message> method for this envelope
Unknown(m) == ~IsReply(m) /\ ~(Has(m, "Message") /\ m["Message"] \in HandlerNames)

\* a reply that finds no entry in ask_pool
Unmatched(m) == IsReply(m) /\ m["ReplyToId"] \notin DOMAIN ask_pool

\* C9: an envelope with no handler, and a reply that matches no ask_pool
\* entry, are logged once as an error and dropped: ask_pool, the spawned
\* handlers and the askers are unchanged and the loop goes on.  The loop ends
\* only on a frame that does not decode, and every other envelope it reads is
\* correlated (its entry gets the envelope and is signalled) or dispatched
\* (its handler is spawned).
C9_UnknownIsDiscarded ==
    [][/\ (ReceiveStep /\ (Unknown(Received) \/ Unmatched(Received))) =>
            /\ ask_pool' = ask_pool
            /\ handlers' = handlers
            /\ asks' = asks
            /\ Len(log') = Len(log) + 1
            /\ log'[Len(log')].level = "error"
            /\ log'[Len(log')].id = Received["Id"]
            /\ rxpc' = "recv"
       /\ (ReceiveStep /\ ~Unknown(Received) /\ ~Unmatched(Received)) =>
            /\ rxpc' = "recv"
            /\ log' = log
            /\ IF IsReply(Received)
               THEN /\ ask_pool'[Received["ReplyToId"]] =
                          [event |-> TRUE, result |-> Received]
                    /\ handlers' = handlers
               ELSE /\ handlers' = Append(handlers, Received)
                    /\ ask_pool' = ask_pool
       /\ (rxpc = "recv" /\ rxpc' # "recv") =>
            (inbox # <<>> /\ Head(inbox) \in BadFrames)]_vars

\* an unknown message or an unmatched reply was logged and dropped, and the
\* reply that arrived after it reached its asker
C9_Witness ==
    /\ rxpc = "recv"
    /\ \E k, k2 \in 1..Len(rxlog) :
          /\ k < k2
          /\ \/ Unknown(rxlog[k])
             \/ IsReply(rxlog[k]) /\ rxlog[k]["ReplyToId"] = 999
          /\ Len(SelectSeq(log, LAMBDA l : l.id = rxlog[k]["Id"])) = 1
          /\ \E t \in DOMAIN asks : Done(t) /\ asks[t].ret = rxlog[k2]

----------------------------------------------------------------------------
(* Properties of the heartbeat *)

\* in this step pong_event.wait returned and the round was decided
WaitOver ==
    /\ hb'.pc \in {"backoff", "interval"}
    /\ hb.pc = "await" \/ hb'.rounds = hb.rounds + 1

OneReconnect ==
    /\ sockets'.pub = [gen |-> sockets.pub.gen + 1, open |-> TRUE]
    /\ sockets'.sub = [gen |-> sockets.sub.gen + 1, open |-> TRUE]

NoReconnect == sockets' = sockets

\* the Ping of a round is sent after the sleep of the ping interval, which
\* follows the one-second pause after a reconnect
SleepsBetweenRounds ==
    /\ hb'.rounds # hb.rounds => hb.pc \in {"settle", "interval"}
    /\ (hb.pc = "backoff" /\ hb' # hb) => hb'.pc = "interval"
    /\ WaitOver => hb'.pc = IF NoReconnect THEN "interval" ELSE "backoff"

\* C10 as stated: a round with Ping Id p does one reconnect cycle if the wait
\* timed out or the pong that woke the wait (the one that set pong_event)
\* carried a PingId other than p, and none if that pong carried p.
C10_WakingPongDecides ==
    [][/\ WaitOver =>
            IF ~pong_event \/ pong_src # hb'.ret THEN OneReconnect ELSE NoReconnect
       /\ ~WaitOver => NoReconnect
       /\ SleepsBetweenRounds]_vars

\* C10 as amended: a round with Ping Id p does one reconnect cycle if the
\* wait timed out or the PingId last recorded by on_Pong when the wait
\* returns (self.last_ping_id) is not p, and none if it is p; no other step
\* reconnects.
C10_LastPongDecides ==
    [][/\ WaitOver =>
            IF ~pong_event \/ last_ping_id # hb'.ret THEN OneReconnect ELSE NoReconnect
       /\ ~WaitOver => NoReconnect
       /\ SleepsBetweenRounds]_vars

\* the first round was ended by a pong with another PingId: one reconnect
\* cycle, and the loop is in its interval sleep
C10_Witness ==
    /\ hb.rounds = 1
    /\ hb.pc = "interval"
    /\ last_ping_id # hb.ret
    /\ \E k \in 1..Len(log) : log[k].what = "ping id mismatch"
    /\ sockets = [pub |-> [gen |-> 2, open |-> TRUE], sub |-> [gen |-> 2, open |-> TRUE]]

----------------------------------------------------------------------------
(* Properties of the idle watchdog *)

\* in this step check_idle made one check and went to sleep
IdleCheckStep == idle' # idle /\ idle'.pc = "sleep"

IsIdleWarning(l) == l.what = "idle"

IdleWarnings == SelectSeq(log, IsIdleWarning)

\* C11: with IdleTimeout T # 0, a check that finds more than T elapsed since
\* the last inbound message adds T to last_msg_time_sum and logs one warning
\* carrying the new total, any other check changes nothing; processing an
\* inbound message sets the total to 0; nothing else changes it.  So each
\* warning carries T or the total of the warning before it plus T.
C11_IdleTotals ==
    /\ [](\A k \in 1..Len(IdleWarnings) :
            /\ idle.timeout # 0
            /\ IdleWarnings[k].total =
                  IF k = 1 THEN idle.timeout
                  ELSE IF IdleWarnings[k - 1].total + idle.timeout = IdleWarnings[k].total
                       THEN IdleWarnings[k].total
                       ELSE idle.timeout)
    /\ [][/\ IdleCheckStep =>
               LET T == idle'.timeout IN
                 IF clock - last_msg_time > T
                 THEN /\ T # 0
                      /\ last_msg_time_sum' = last_msg_time_sum + T
                      /\ Len(log') = Len(log) + 1
                      /\ log'[Len(log')].level = "warning"
                      /\ log'[Len(log')].total = last_msg_time_sum'
                 ELSE /\ last_msg_time_sum' = last_msg_time_sum
                      /\ log' = log
          /\ ReceiveStep =>
               /\ last_msg_time_sum' = 0
               /\ last_msg_time' = clock
          /\ (~IdleCheckStep /\ ~ReceiveStep) =>
               /\ last_msg_time_sum' = last_msg_time_sum
               /\ IdleWarnings' = IdleWarnings]_vars

\* two warnings in a row carried T and 2T, an inbound message was processed,
\* and the next warning carried T again
C11_Witness ==
    /\ rxlog # <<>>
    /\ last_msg_time > 0
    /\ \E k \in 1..Len(IdleWarnings) :
          /\ k + 2 <= Len(IdleWarnings)
          /\ IdleWarnings[k].total = idle.timeout
          /\ IdleWarnings[k + 1].total = 2 * idle.timeout
          /\ IdleWarnings[k + 2].total = idle.timeout

----------------------------------------------------------------------------
(* Properties of the counters, of duplicate replies and of frames that do   *)
(* not decode                                                               *)

\* C12: the received counter is its initial value (0) plus the number of
\* envelopes the receive loop has decoded.
C12_ReceivedCounted == receive_message_count = Len(rxlog)

\* the loop has already given a reply to the entry of the ask with Id i
Fulfilled(i) == i \in AskedIds /\ RepliesFor(i, Len(rxlog)) # {}

FirstReply(t) ==
    CHOOSE k \in RepliesSeen(t) : \A j \in RepliesSeen(t) : k <= j

\* C13: once the entry of an ask has been given a reply, a further envelope
\* with the same ReplyToId changes no entry of ask_pool and is logged as an
\* unexpected reply; an ask that returns a reply returns the first one the
\* loop processed for its Id.
C13_FulfilledOnce ==
    /\ [](\A t \in DOMAIN asks :
            (Done(t) /\ RepliesSeen(t) # {}) => asks[t].ret = rxlog[FirstReply(t)])
    /\ [][(ReceiveStep /\ IsReply(Received) /\ Fulfilled(Received["ReplyToId"])) =>
              /\ ask_pool' = ask_pool
              /\ Len(log') = Len(log) + 1
              /\ log'[Len(log')].level = "error"
              /\ log'[Len(log')].id = Received["Id"]]_vars

\* in this step the loop took a frame that does not decode off the socket
BadFrameStep ==
    /\ rxpc = "recv"
    /\ inbox # <<>>
    /\ Head(inbox) \in BadFrames
    /\ inbox' = Tail(inbox)

\* C20: a frame that is not two parts or not JSON does not end the receive
\* loop: after it the loop is reading again, so the loop never ends.
C20_BadFrameSurvived ==
    /\ [](rxpc # "dead")
    /\ [][BadFrameStep => rxpc' = "recv"]_vars

----------------------------------------------------------------------------
(* Properties of the receive loop under read errors *)

\* in this step a read of the receive loop raised zmq.ZMQError: the loop
\* left the closed socket it was on, or a transport fault hit its read
ReadErrorStep ==
    /\ rxpc = "recv"
    /\ \/ rxsock' # rxsock
       \/ rxpc' = "spin"
       \/ delivered' = delivered + 1 /\ inbox' = inbox

\* C14: a failed read more than 1 second after the last heartbeat reconnect
\* logs one transport error, a failed read within 1 second of it logs
\* nothing, and in both cases the loop goes on to its next read.
C14_ReadErrorLogged ==
    [][ReadErrorStep =>
         /\ rxpc' = "recv"
         /\ IF clock - last_pub_sub_reconnect > 1
            THEN /\ Len(log') = Len(log) + 1
                 /\ log'[Len(log')].what = "sub socket error"
            ELSE log' = log]_vars

----------------------------------------------------------------------------
(* Properties of the receive loop under the heartbeat's reconnect *)

Gens == 1..(MaxRounds + 1)

\* C18: whatever the heartbeat's reconnects do, the receive loop does not
\* end; the SUB socket is open whenever the loop runs; when the socket the
\* loop was reading on has been replaced the loop's next read is on the new
\* one, without a log line and without a frame taken from the old one; the
\* loop does not stay on a replaced socket; and a frame queued on a socket
\* is read by the loop unless that socket is replaced first.
C18_ReadFollowsReconnect ==
    /\ [](rxpc = "recv" /\ sockets.sub.open /\ rxsock <= sockets.sub.gen)
    /\ [][/\ rxsock' # rxsock =>
               /\ rxsock' = sockets'.sub.gen
               /\ sockets' = sockets
               /\ rxlog' = rxlog /\ handlers' = handlers /\ log' = log
          /\ ReceiveStep => rxsock = sockets.sub.gen
          /\ Len(inbox') < Len(inbox) =>
               ReceiveStep \/ sockets'.sub.gen # sockets.sub.gen]_vars
    /\ (rxsock # sockets.sub.gen) ~> (rxsock = sockets.sub.gen)
    /\ \A g \in Gens :
          (sockets.sub.gen = g /\ inbox # <<>>) ~>
              (sockets.sub.gen # g \/ inbox = <<>>)

\* the first round timed out and reconnected, the loop moved to the new
\* socket, and it has read the Ping of the second round, which was sent
\* after the reconnect
C18_Witness ==
    /\ hb.rounds = 2
    /\ sockets.sub.gen = 2
    /\ rxsock = 2
    /\ \E k \in 1..Len(rxlog) :
          rxlog[k]["Message"] = "Ping" /\ rxlog[k]["Id"] = hb.ret

----------------------------------------------------------------------------
(* Properties of shutdown *)

\* C16: an ask that has published its envelope returns in the end, with the
\* reply or with the empty result, whatever the heartbeat and stop() do.
C16_AskResolves ==
    \A t \in 1..MaxAsk : (asks[t].st = "waiting") ~> Done(t)

\* C19: once stop() has run both sockets are closed and stay closed, the
\* receive loop decodes no frame and no handler greenlet is spawned.
C19_StoppedStaysClosed ==
    /\ [](stopped => (~sockets.sub.open /\ ~sockets.pub.open))
    /\ [][stopped =>
             /\ stopped'
             /\ sockets' = sockets
             /\ rxlog' = rxlog
             /\ Len(handlers') <= Len(handlers)
             /\ outbox' = outbox]_vars

\* after stop() a pong with a stale PingId ended the heartbeat's wait: the
\* reconnect was attempted, raised on the closed socket and ended ping()
C19_Witness ==
    /\ stopped
    /\ hb.pc = "dead"
    /\ log # <<>>
    /\ log[Len(log)].what = "ping id mismatch"
    /\ ~sockets.sub.open /\ ~sockets.pub.open

----------------------------------------------------------------------------
(* Properties of dispatch *)

\* the receive loop has decoded the envelope with Id i
Decoded(i) == \E k \in 1..Len(rxlog) : rxlog[k]["Id"] = i

\* C15: the receive loop never waits for a handler it has spawned or for an
\* asker: with a frame queued it is ready to read whatever handlers are
\* unfinished and whatever asks are waiting; a read runs no handler and
\* returns no ask; a reply read while its asker is suspended sets the
\* asker's event, any other known message adds its handler to the unfinished
\* ones; and every envelope a peer delivers is decoded in the end, even if
\* no handler ever finishes and no ask ever returns.
C15_LoopNeverWaits ==
    /\ [](rxpc = "recv")
    /\ []((inbox # <<>>) => ENABLED Receive)
    /\ [][ReceiveStep =>
             /\ asks' = asks
             /\ Len(handlers') >= Len(handlers)
             /\ SubSeq(handlers', 1, Len(handlers)) = handlers
             /\ IF IsReply(Received)
                THEN Received["ReplyToId"] \in DOMAIN ask_pool =>
                        ask_pool'[Received["ReplyToId"]] =
                            [event |-> TRUE, result |-> Received]
                ELSE Received["Message"] \in HandlerNames =>
                        handlers' = Append(handlers, Received)]_vars
    /\ \A n \in 0..(MaxDeliver - 1) : (delivered > n) ~> Decoded(100 + n)

\* a handler was dispatched and has not run; after it the loop delivered the
\* reply a suspended asker waits for
C15_Witness ==
    /\ Len(handlers) = 1
    /\ \E t \in DOMAIN asks :
          /\ asks[t].st = "waiting"
          /\ ask_pool[asks[t].id].event
          /\ \E j, k \in 1..Len(rxlog) :
                /\ j < k
                /\ rxlog[j] = handlers[1]
                /\ rxlog[k] = ask_pool[asks[t].id].result

----------------------------------------------------------------------------
(* Properties of two actors in one process *)

SessionNames ==
    {"ask_pool", "pong_event", "last_ping_id", "settings", "sent_message_count",
     "receive_message_count", "last_msg_time", "last_msg_time_sum"}

\* the session state of the first actor and of the second
Session1 ==
    [ask_pool |-> ask_pool, pong_event |-> pong_event,
     last_ping_id |-> last_ping_id, settings |-> settings,
     sent_message_count |-> sent_message_count,
     receive_message_count |-> receive_message_count,
     last_msg_time |-> last_msg_time, last_msg_time_sum |-> last_msg_time_sum]

Session2 == [n \in SessionNames |-> getattr2(n)]

\* this step is an operation of the second actor
Step2 == inst2' # inst2

\* C17: an operation of one actor leaves the other actor's correlation
\* table, pong signal, last ping id, settings and counters as they were.
C17_SessionsDisjoint ==
    [][IF Step2 THEN Session1' = Session1 ELSE Session2' = Session2]_vars

====
